---- MODULE Spec2Model ----
(***************************************************************************)
(* Monte Carlo race-outcome engines of montecarlo/parallel_monte_carlo.py  *)
(* (ParallelMonteCarloEngine: a multiprocessing.Pool fan-out over chunks)  *)
(* and montecarlo/gpu_monte_carlo.py (GPUMonteCarloEngine: one vectorized  *)
(* batch on torch or numpy).                                               *)
(*                                                                         *)
(* Times are integers in milliseconds.  A probability is a count over the  *)
(* number of merged trials (position_distribution[p] = count[p] / total).  *)
(* numpy's and torch's generators are one deterministic generator over a   *)
(* finite state space: seeding sets the state, every draw advances it and  *)
(* reads its value off the new state by inverse CDF.  An unseeded          *)
(* generator starts in an arbitrary state.                                 *)
(***************************************************************************)
EXTENDS Integers, Sequences, FiniteSets, TLC

\* ------------------------------------------------------------- bounds
\* n_simulations ranges over -1..MaxSims.
MaxSims == 3
\* n_cores ranges over -2..MaxCores.
MaxCores == 2
\* cpu_count() of the host.
HardwareCores == 3
\* The reference batch of _benchmark_cpu (n_sims=10000 in the source), scaled.
BenchmarkSims == 2

\* Worker processes that may die during the engine's life.
MaxCrashes == 1

\* ---------------------------------------------------------- arithmetic
Max(a, b) == IF a >= b THEN a ELSE b
Min(a, b) == IF a <= b THEN a ELSE b

RECURSIVE SumSeq(_)
SumSeq(s) == IF s = <<>> THEN 0 ELSE Head(s) + SumSeq(Tail(s))

\* floor of the square root, by Newton's iteration from above
RECURSIVE ISqrtFrom(_, _)
ISqrtFrom(n, x) ==
  LET y == (x + n \div x) \div 2
  IN IF y >= x THEN x ELSE ISqrtFrom(n, y)
ISqrt(n) == IF n = 0 THEN 0 ELSE ISqrtFrom(n, n)

\* np.mean of a non-empty list
Mean(s) == SumSeq(s) \div Len(s)

\* np.std (population standard deviation, ddof = 0)
Std(s) ==
  LET m == Mean(s)
      sq == [i \in 1..Len(s) |-> (s[i] - m) * (s[i] - m)]
  IN ISqrt(SumSeq(sq) \div Len(s))

\* ---------------------------------------------------- random generator
\* Size of the generator's state space.
RngMod == 1024

\* One step of the generator.
RngNext(s) == (37 * s + 11) % RngMod

\* One step and eight steps, tabulated over the states.
RngStep == [s \in 0..(RngMod - 1) |-> RngNext(s)]
RngStep8 ==
  [s \in 0..(RngMod - 1) |->
     RngStep[RngStep[RngStep[RngStep[RngStep[RngStep[RngStep[RngStep[s]]]]]]]]]

\* The state after k steps (eight at a time while that many are left).
RECURSIVE Stream(_, _)
Stream(s, k) ==
  IF k = 0 THEN s
  ELSE IF k >= 8 THEN RngStep8[Stream(s, k - 8)]
  ELSE RngStep[Stream(s, k - 1)]

\* A uniform draw in 0..k-1 read off state s.
Uniform(s, k) == (s \div 8) % k

\* np.random.seed(seed): legal for 0 <= seed < 2^32, ValueError otherwise.
\* (2^32 written as 65536 * 65536)
SeedLegal(seed) == seed >= 0 /\ seed \div 65536 < 65536
SeedState(seed) == seed % RngMod

\* np.random.normal(0, sigma): the standard normal in tenths, by quantile.
NormalQuantiles == <<-20, -12, -6, -2, 2, 6, 12, 20>>
Normal(s, sigma) == (sigma * NormalQuantiles[Uniform(s, 8) + 1]) \div 10

\* np.random.choice(values, p=...): inverse CDF, cdf in tenths.
WeightedChoice(values, cdf, s) ==
  LET u == Uniform(s, 10)
      i == CHOOSE j \in 1..Len(values) :
             /\ u < cdf[j]
             /\ \A k \in 1..(j - 1) : u >= cdf[k]
  IN values[i]

\* np.random.choice(values, size) and torch.randint: uniform over values.
UniformChoice(values, s) == values[Uniform(s, Len(values)) + 1]

\* np.random.binomial(1, 0.05), np.random.random() < 0.05, torch.rand() < 0.05
Incident(s) == Uniform(s, 20) < 1

\* ------------------------------------------------------- input domains
\* DriverState objects the caller may pass (times in ms, fuel in percent).
NoLaps == <<>>
ScenarioLaps == <<89500, 89800, 90100, 89700, 90000>>

MkDriver(pos, age, compound, fuel, laps, pits) ==
  [position |-> pos, tire_age |-> age, tire_compound |-> compound,
   fuel_load |-> fuel, recent_lap_times |-> laps, pit_stops_made |-> pits]

DriverStates ==
  { MkDriver(3, 15, "MEDIUM", 60, ScenarioLaps, 1),
    MkDriver(3, 25, "MEDIUM", 60, ScenarioLaps, 1),
    MkDriver(1, 0, "SOFT", 0, NoLaps, 0),
    MkDriver(20, 10, "HARD", 50, <<90000>>, 2),
    MkDriver(10, 0, "INTERMEDIATE", 0, <<88000, 89000>>, 1),
    MkDriver(10, 20, "SOFT", 0, <<88000, 89000>>, 0),
    MkDriver(0, 21, "HARD", 0, NoLaps, 0),
    MkDriver(25, 0, "MEDIUM", 0, <<90000>>, 3) }

SimCounts == (-1)..MaxSims
CoreCounts == (-2)..MaxCores
Seeds == {-1, 7, 42}
\* States an unseeded generator may be found in.
ArbitraryRngStates == {77, 1001}
TorchEnvs == {"cuda", "cpu", "absent"}

\* ------------------------------------------------------ per-trial model
\* tire_deg_rate.get(compound, 0.05), in ms per lap
DegRate(compound) ==
  CASE compound = "SOFT" -> 80
    [] compound = "MEDIUM" -> 50
    [] compound = "HARD" -> 30
    [] OTHER -> 50

TireEffect(d) == d.tire_age * DegRate(d.tire_compound)
FuelEffect(d) == d.fuel_load * 30

\* lap_time_delta < -0.5, > 0.5, otherwise
TierOf(delta) ==
  IF delta < -500 THEN "fast" ELSE IF delta > 500 THEN "slow" ELSE "normal"

\* CPU worker: np.random.choice(values, p=weights), cdf in tenths
CpuTierValues(tier) ==
  CASE tier = "fast" -> <<-2, -1, 0>>
    [] tier = "slow" -> <<0, 1, 2>>
    [] OTHER -> <<-1, 0, 1>>
CpuTierCdf(tier) ==
  CASE tier = "fast" -> <<3, 8, 10>>
    [] tier = "slow" -> <<2, 7, 10>>
    [] OTHER -> <<2, 8, 10>>
CpuIncidentValues == <<-2, -1, 1, 2, 3>>
CpuIncidentCdf == <<1, 3, 6, 8, 10>>

\* avg_lap_time and lap_time_variance of _run_simulation_chunk
CpuAvgLapTime(d) ==
  IF d.recent_lap_times # <<>> THEN Mean(d.recent_lap_times) ELSE 90000
CpuLapTimeVariance(d) ==
  IF Len(d.recent_lap_times) > 1 THEN Std(d.recent_lap_times) ELSE 500

\* (faulty variant: the upper clamp left out)
ClampNoUpper(x) == Max(1, x)
\* max(1, min(20, position + position_change)), np.clip, torch.clamp
ClampPosition(x) == Max(1, Min(20, x))

\* One iteration of the loop of _run_simulation_chunk from generator state s0:
\* the lap time, the final position and the generator state it leaves.
CpuTrial(d, s0) ==
  LET s1 == RngNext(s0)
      sim_lap_time == CpuAvgLapTime(d) + TireEffect(d) + FuelEffect(d)
                        + Normal(s1, CpuLapTimeVariance(d))
      tier == TierOf(sim_lap_time - CpuAvgLapTime(d))
      s2 == RngNext(s1)
      change == WeightedChoice(CpuTierValues(tier), CpuTierCdf(tier), s2)
      s3 == RngNext(s2)
      s4 == RngNext(s3)
      extra == IF Incident(s3)
               THEN WeightedChoice(CpuIncidentValues, CpuIncidentCdf, s4)
               ELSE 0
  IN [lap_time |-> sim_lap_time,
      position |-> ClampPosition(d.position + change + extra),
      incident |-> Incident(s3),
      rng |-> IF Incident(s3) THEN s4 ELSE s3]

\* ------------------------------------------------ vectorized batch (GPU)
\* torch.randint(lo, hi) of _run_gpu_simulation: uniform over lo..hi-1
TorchTierValues(tier) ==
  CASE tier = "fast" -> <<-2, -1, 0>>
    [] tier = "slow" -> <<0, 1, 2>>
    [] OTHER -> <<-1, 0, 1>>
TorchIncidentValues == <<-2, -1, 0, 1, 2, 3>>

\* np.random.choice(values, size) of _run_cpu_simulation: uniform over values
NumpyTierValues(tier) ==
  CASE tier = "fast" -> <<-2, -1, 0>>
    [] tier = "slow" -> <<0, 1, 2>>
    [] OTHER -> <<-1, 0, 1>>
NumpyIncidentValues == <<-2, -1, 1, 2, 3>>

\* The law of each backend's draws, value |-> frequency, counted over one full
\* period of the uniform variate the draw reads (state 8 * u has variate u).
Variates == 0..59
Tiers == {"fast", "slow", "normal"}
ValuesOf(values) == {values[i] : i \in 1..Len(values)}
CpuTierLaw(tier) ==
  [v \in ValuesOf(CpuTierValues(tier)) |->
     Cardinality({u \in Variates :
       WeightedChoice(CpuTierValues(tier), CpuTierCdf(tier), 8 * u) = v})]
CpuIncidentLaw ==
  [v \in ValuesOf(CpuIncidentValues) |->
     Cardinality({u \in Variates :
       WeightedChoice(CpuIncidentValues, CpuIncidentCdf, 8 * u) = v})]
NumpyTierLaw(tier) ==
  [v \in ValuesOf(NumpyTierValues(tier)) |->
     Cardinality({u \in Variates : UniformChoice(NumpyTierValues(tier), 8 * u) = v})]
NumpyIncidentLaw ==
  [v \in ValuesOf(NumpyIncidentValues) |->
     Cardinality({u \in Variates : UniformChoice(NumpyIncidentValues, 8 * u) = v})]
TorchTierLaw(tier) ==
  [v \in ValuesOf(TorchTierValues(tier)) |->
     Cardinality({u \in Variates : UniformChoice(TorchTierValues(tier), 8 * u) = v})]
TorchIncidentLaw ==
  [v \in ValuesOf(TorchIncidentValues) |->
     Cardinality({u \in Variates : UniformChoice(TorchIncidentValues, 8 * u) = v})]

\* The exact law of one trial's final position in a backend ("cpu": the pool
\* worker, "numpy": _run_cpu_simulation, "torch": _run_gpu_simulation), which
\* the sample of a large batch approaches: the normal variate falls on each of
\* its quantiles equally often, the tier's change follows the tier's law, and
\* an incident, as often as Incident holds, adds an extra by the incident law.
BackendTierValues(b, tier) ==
  CASE b = "cpu" -> CpuTierValues(tier)
    [] b = "numpy" -> NumpyTierValues(tier)
    [] OTHER -> TorchTierValues(tier)
BackendTierLaw(b, tier) ==
  CASE b = "cpu" -> CpuTierLaw(tier)
    [] b = "numpy" -> NumpyTierLaw(tier)
    [] OTHER -> TorchTierLaw(tier)
BackendIncidentValues(b) ==
  CASE b = "cpu" -> CpuIncidentValues
    [] b = "numpy" -> NumpyIncidentValues
    [] OTHER -> TorchIncidentValues
BackendIncidentLaw(b) ==
  CASE b = "cpu" -> CpuIncidentLaw
    [] b = "numpy" -> NumpyIncidentLaw
    [] OTHER -> TorchIncidentLaw
IncidentFrequency == Cardinality({u \in Variates : Incident(8 * u)})

\* Sum over all outcomes of weight * (final position - position)^k, k = 1, 2;
\* the weights of all outcomes sum to 8 * 60 * 60 * 60.
TrialMomentSum(d, b, k) ==
  LET sigma == CpuLapTimeVariance(d)
      tier(q) == TierOf(TireEffect(d) + FuelEffect(d)
                          + (sigma * NormalQuantiles[q]) \div 10)
      ivals == BackendIncidentValues(b)
      ilaw == BackendIncidentLaw(b)
      dev(x) == ClampPosition(d.position + x) - d.position
      pow(x) == IF k = 1 THEN x ELSE x * x
      quiet == Cardinality(Variates) - IncidentFrequency
      after(c) ==
        quiet * Cardinality(Variates) * pow(dev(c))
          + IncidentFrequency
              * SumSeq([j \in 1..Len(ivals) |-> ilaw[ivals[j]] * pow(dev(c + ivals[j]))])
      ofTier(t) ==
        LET vals == BackendTierValues(b, t)
            law == BackendTierLaw(b, t)
        IN SumSeq([i \in 1..Len(vals) |-> law[vals[i]] * after(vals[i])])
  IN SumSeq([q \in 1..Len(NormalQuantiles) |-> ofTier(tier(q))])

\* Mean of the final position and its standard deviation, in thousandths.
TrialMean(d, b) == d.position * 1000 + TrialMomentSum(d, b, 1) \div 1728
TrialStd(d, b) ==
  LET m == TrialMomentSum(d, b, 1) \div 1728
      e2 == TrialMomentSum(d, b, 2) \div 1728
  IN ISqrt(e2 * 1000 - m * m)

\* base_lap_time = np.mean(recent_laps): NaN (with a warning) on an empty list
GpuBaseIsNaN(d) == d.recent_lap_times = <<>>
GpuBaseLapTime(d) ==
  IF GpuBaseIsNaN(d) THEN 0 ELSE Mean(d.recent_lap_times)
GpuLapTimeVar(d) ==
  IF Len(d.recent_lap_times) > 1 THEN Std(d.recent_lap_times) ELSE 500

\* The batch of n trials as the vectorized code draws it from state s0: n normal
\* draws, then one draw per trial of the fast, the slow and the normal mask (in
\* that order), then n uniform draws for the incident mask, then one draw per
\* incident.  A NaN lap time compares false with both thresholds: normal mask.
VectorBatch(d, n, s0, torch) ==
  LET idx == 1..n
      variation(i) == Normal(Stream(s0, i), GpuLapTimeVar(d))
      delta(i) == TireEffect(d) + FuelEffect(d) + variation(i)
      tier(i) == IF GpuBaseIsNaN(d) THEN "normal" ELSE TierOf(delta(i))
      count(t) == Cardinality({j \in idx : tier(j) = t})
      offset(t) == CASE t = "fast" -> n
                     [] t = "slow" -> n + count("fast")
                     [] OTHER -> n + count("fast") + count("slow")
      rank(i) == Cardinality({j \in 1..i : tier(j) = tier(i)})
      values(t) == IF torch THEN TorchTierValues(t) ELSE NumpyTierValues(t)
      change(i) == UniformChoice(values(tier(i)),
                                 Stream(s0, offset(tier(i)) + rank(i)))
      incident(i) == Incident(Stream(s0, 2 * n + i))
      incidents == Cardinality({j \in idx : incident(j)})
      irank(i) == Cardinality({j \in 1..i : incident(j)})
      ivalues == IF torch THEN TorchIncidentValues ELSE NumpyIncidentValues
      extra(i) == IF incident(i)
                  THEN UniformChoice(ivalues, Stream(s0, 3 * n + irank(i)))
                  ELSE 0
  IN [positions |-> [i \in idx |-> ClampPosition(d.position + change(i) + extra(i))],
      lap_nan |-> GpuBaseIsNaN(d),
      lap_times |-> [i \in idx |->
                       GpuBaseLapTime(d) + TireEffect(d) + FuelEffect(d) + variation(i)],
      rng |-> Stream(s0, 3 * n + incidents)]

\* ------------------------------------------------------------ aggregator
\* np.unique(positions, return_counts=True)
Unique(positions) == {positions[i] : i \in 1..Len(positions)}
CountOf(positions, p) == Cardinality({i \in 1..Len(positions) : positions[i] = p})

\* _calculate_position_distribution / _calculate_distribution: the probability
\* of p is counts[p] / total; the dict is empty for no positions.
\* (faulty variant: np.unique without return_counts)
OnePerKey(positions) ==
  [counts |-> [p \in Unique(positions) |-> 1], total |-> Len(positions)]
CalculateDistribution(positions) ==
  [counts |-> [p \in Unique(positions) |-> CountOf(positions, p)],
   total |-> Len(positions)]

Prob(dist, p) == IF p \in DOMAIN dist.counts THEN dist.counts[p] ELSE 0

\* The dict's items in insertion order: np.unique's ascending order.
RECURSIVE SortedKeys(_)
SortedKeys(S) ==
  IF S = {} THEN <<>>
  ELSE LET m == CHOOSE x \in S : \A y \in S : x <= y
       IN <<m>> \o SortedKeys(S \ {m})

\* (faulty variant: a later item of equal value replaces the best)
RECURSIVE MaxScanKeepsLast(_, _, _)
MaxScanKeepsLast(counts, keys, best) ==
  IF keys = <<>> THEN best
  ELSE MaxScanKeepsLast(counts, Tail(keys),
                        IF counts[Head(keys)] >= counts[best] THEN Head(keys) ELSE best)
\* Python's max(iterable, key=...): one pass, an item replaces the best only
\* when its key is strictly greater.
RECURSIVE MaxScan(_, _, _)
MaxScan(counts, keys, best) ==
  IF keys = <<>> THEN best
  ELSE MaxScan(counts, Tail(keys),
               IF counts[Head(keys)] > counts[best] THEN Head(keys) ELSE best)

\* _get_most_likely_position: max(distribution.items(), key=lambda x: x[1])[0]
\* (ValueError on the empty dict is raised by the caller's action)
MostLikelyPosition(dist) ==
  LET keys == SortedKeys(DOMAIN dist.counts)
  IN MaxScan(dist.counts, Tail(keys), Head(keys))

\* int(np.bincount(final_positions).argmax()): counts per index
\* 0..max(positions), then the first index holding the maximum.
Bincount(positions) ==
  LET top == CHOOSE m \in ValuesOf(positions) : \A x \in ValuesOf(positions) : x <= m
  IN [i \in 0..top |-> CountOf(positions, i)]
RECURSIVE ArgmaxFrom(_, _, _)
ArgmaxFrom(a, i, best) ==
  IF i \notin DOMAIN a THEN best
  ELSE ArgmaxFrom(a, i + 1, IF a[i] > a[best] THEN i ELSE best)
BincountArgmax(positions) == ArgmaxFrom(Bincount(positions), 1, 0)

\* (faulty variant: the clamp left out)
CalculateConfidenceUnclamped(dist, predicted) ==
  [num |-> (Prob(dist, predicted) * 70
              + (Prob(dist, predicted - 1) + Prob(dist, predicted)
                   + Prob(dist, predicted + 1)) * 30) * 100,
   den |-> dist.total]
\* _calculate_confidence: min(95, max(60, (P*70 + nearby*30) * 100)), as a
\* fraction num/den
CalculateConfidence(dist, predicted) ==
  LET nearby == Prob(dist, predicted - 1) + Prob(dist, predicted)
                  + Prob(dist, predicted + 1)
      num == (Prob(dist, predicted) * 70 + nearby * 30) * 100
      den == dist.total
  IN IF num >= 95 * den THEN [num |-> 95, den |-> 1]
     ELSE IF num <= 60 * den THEN [num |-> 60, den |-> 1]
     ELSE [num |-> num, den |-> den]

\* ------------------------------------------------------- action selector
Act(a, c) == [action |-> a, confidence |-> c]

\* (faulty variants: the pit-stop test left out; the tire test made last)
CpuActionNoPitCheck(d, predicted) ==
  LET position_change == d.position - predicted
  IN IF d.tire_age > 20 THEN Act("PIT_NOW", 90)
     ELSE IF position_change > 1 THEN Act("PUSH_MODE", 85)
     ELSE IF position_change < -1 THEN Act("PIT_SOON", 80)
     ELSE Act("MAINTAIN_PACE", 82)
CpuActionTireLast(d, predicted) ==
  LET position_change == d.position - predicted
  IN IF position_change > 1 THEN Act("PUSH_MODE", 85)
     ELSE IF position_change < -1
          THEN (IF d.pit_stops_made < 1 THEN Act("PIT_SOON", 80)
                ELSE Act("FUEL_SAVE", 75))
          ELSE IF d.tire_age > 20 THEN Act("PIT_NOW", 90)
          ELSE Act("MAINTAIN_PACE", 82)
\* ParallelMonteCarloEngine._determine_action
CpuDetermineAction(d, predicted) ==
  LET position_change == d.position - predicted
  IN IF d.tire_age > 20 THEN Act("PIT_NOW", 90)
     ELSE IF position_change > 1 THEN Act("PUSH_MODE", 85)
     ELSE IF position_change < -1
          THEN (IF d.pit_stops_made < 1 THEN Act("PIT_SOON", 80)
                ELSE Act("FUEL_SAVE", 75))
          ELSE Act("MAINTAIN_PACE", 82)

\* GPUMonteCarloEngine._determine_action
GpuDetermineAction(d, predicted) ==
  LET position_change == d.position - predicted
  IN IF d.tire_age > 20 THEN Act("PIT_NOW", 90)
     ELSE IF position_change > 1 THEN Act("PUSH_MODE", 85)
     ELSE IF position_change < -1 THEN Act("PIT_SOON", 80)
     ELSE Act("MAINTAIN_PACE", 82)

\* ------------------------------------------------------- chunk planning
\* Python's // and % (floor division; the remainder has the divisor's sign)
PyFloorDiv(a, b) == IF b > 0 THEN a \div b ELSE (0 - a) \div (0 - b)
PyMod(a, b) == a - b * PyFloorDiv(a, b)

\* (faulty variant: the remainder given to the last chunks)
ChunkSizeRemainderLast(n, cores, core_id) ==
  PyFloorDiv(n, cores) + (IF core_id >= cores - PyMod(n, cores) THEN 1 ELSE 0)
\* (faulty variant: the remainder dropped)
ChunkSizeNoRemainder(n, cores, core_id) == PyFloorDiv(n, cores)
\* chunk_size = sims_per_core + (1 if core_id < remaining_sims else 0)
ChunkSize(n, cores, core_id) ==
  PyFloorDiv(n, cores) + (IF core_id < PyMod(n, cores) THEN 1 ELSE 0)

\* (faulty variant: every chunk given the base seed)
SimChunksSameSeed(cfg) ==
  [k \in 1..cfg.n_cores |->
     [core_id |-> k - 1,
      n_sims |-> ChunkSize(cfg.n_simulations, cfg.n_cores, k - 1),
      seed |-> cfg.random_seed]]
\* sim_chunks: one (core_id, chunk_size, ..., random_seed + core_id) per
\* core_id in range(n_cores); empty for n_cores < 0
SimChunks(cfg) ==
  [k \in 1..cfg.n_cores |->
     [core_id |-> k - 1,
      n_sims |-> ChunkSize(cfg.n_simulations, cfg.n_cores, k - 1),
      seed |-> cfg.random_seed + (k - 1)]]

\* ----------------------------------------------------------------- state
VARIABLES
  engine,         \* "CPU": ParallelMonteCarloEngine, "GPU": GPUMonteCarloEngine
  pc,             \* where the caller is
  config,         \* the caller's SimulationConfig object (held by the engine)
  passed,         \* its field values as the caller built it
  driver,         \* the DriverState passed to predict_race_outcome
  gpu,            \* GPUMonteCarloEngine: n_simulations, device, and its inputs
  sim_chunks,     \* the task list of predict_race_outcome
  next_task,      \* index of the next task in the pool's queue
  procs,          \* the pool's worker processes
  chunk_results,  \* per task: pending, the chunk's result, or its exception
  map_exc,        \* the first exception pool.map received, with its task
  crashes,        \* worker processes that died with a task in hand
  np_rng,         \* state of np.random in the calling process
  torch_rng,      \* state of torch's generator
  gpu_result,     \* the dict returned by _run_gpu_simulation
  result,         \* the object returned to the caller
  error,          \* the exception raised to the caller
  run,            \* 1 for the first call on the engine, 2 for the repeated one
  first,          \* the result of the first call
  sel,            \* the action selectors applied on their own: input, outputs
  strategy,       \* StrategyEngine: its inputs, Python's random, its results
  session         \* extract_driver_state: its arguments and what it returns

vars == <<engine, pc, config, passed, driver, gpu, sim_chunks, next_task, procs,
          chunk_results, map_exc, crashes, np_rng, torch_rng, gpu_result, result,
          error, run, first, sel, strategy, session>>

NoConfig == [n_simulations |-> 0, n_cores |-> 0, random_seed |-> 0]
NoGpu == [n_simulations |-> 0, use_gpu |-> FALSE, torch |-> "absent",
          device |-> "unset", requested |-> 0]
None == [none |-> TRUE]
Pending == [state |-> "pending", positions |-> <<>>, lap_times |-> <<>>]
Idle(rng) == [task |-> 0, rng |-> rng, positions |-> <<>>, lap_times |-> <<>>]

Init ==
  /\ engine \in {"CPU", "GPU"}
  /\ pc = "new"
  /\ config \in IF engine = "CPU"
                THEN [n_simulations : SimCounts, n_cores : CoreCounts,
                      random_seed : Seeds]
                ELSE {NoConfig}
  /\ passed = config
  /\ driver \in DriverStates
  /\ gpu \in IF engine = "GPU"
             THEN {[n_simulations |-> n, use_gpu |-> u, torch |-> t,
                    device |-> "unset", requested |-> n] :
                     n \in SimCounts, u \in BOOLEAN, t \in TorchEnvs}
             ELSE {NoGpu}
  /\ sim_chunks = <<>>
  /\ next_task = 1
  /\ procs = <<>>
  /\ chunk_results = <<>>
  /\ map_exc = None
  /\ crashes = 0
  /\ np_rng \in ArbitraryRngStates
  /\ torch_rng \in IF engine = "GPU" /\ gpu.torch = "cuda" /\ gpu.use_gpu
                   THEN ArbitraryRngStates ELSE {0}
  /\ gpu_result = None
  /\ result = None
  /\ error = "none"
  /\ run = 1
  /\ first = None
  /\ sel = None
  /\ strategy = None
  /\ session = None

\* The call ends by raising exc to the caller.
Raise(exc) ==
  /\ pc' = "raised"
  /\ error' = exc

\* ------------------------------------------- ParallelMonteCarloEngine
\* __init__: the auto value -1 is replaced, in the caller's object, by
\* cpu_count(); nothing is validated.
CpuConstruct ==
  /\ pc = "new" /\ engine = "CPU"
  /\ config' = IF config.n_cores = -1
               THEN [config EXCEPT !.n_cores = HardwareCores]
               ELSE config
  /\ pc' = "ready"
  /\ UNCHANGED <<session, strategy, sel, engine, passed, driver, gpu, sim_chunks, next_task, procs,
                 chunk_results, map_exc, crashes, np_rng, torch_rng, gpu_result, result,
                 error, run, first>>

\* predict_race_outcome up to the task list: n // n_cores raises
\* ZeroDivisionError for n_cores = 0.
CpuPredict ==
  /\ pc = "ready" /\ engine = "CPU"
  /\ IF config.n_cores = 0
     THEN /\ Raise("ZeroDivisionError")
          /\ UNCHANGED sim_chunks
     ELSE /\ sim_chunks' = SimChunks(config)
          /\ pc' = "pool"
          /\ UNCHANGED error
  /\ UNCHANGED <<session, strategy, sel, engine, config, passed, driver, gpu, next_task, procs,
                 chunk_results, map_exc, crashes, np_rng, torch_rng, gpu_result, result,
                 run, first>>

\* Pool(processes=n_cores) raises ValueError for n_cores < 1; otherwise it
\* starts n_cores worker processes, each with the caller's generator state,
\* and pool.map queues one task per chunk.
CpuPoolCreate ==
  /\ pc = "pool"
  /\ IF config.n_cores < 1
     THEN /\ Raise("ValueError")
          /\ UNCHANGED <<procs, chunk_results, next_task>>
     ELSE /\ procs' = [p \in 1..config.n_cores |-> Idle(np_rng)]
          /\ chunk_results' = [k \in 1..Len(sim_chunks) |-> Pending]
          /\ next_task' = 1
          /\ pc' = "map"
          /\ UNCHANGED error
  /\ UNCHANGED <<session, strategy, sel, engine, config, passed, driver, gpu, sim_chunks, map_exc, crashes,
                 np_rng, torch_rng, gpu_result, result, run, first>>

\* (faulty variant: the chunk not reseeded)
KeepRngState(seed, rng) == rng
\* The generator state a worker runs its chunk from: np.random.seed(seed).
ChunkRngState(seed, rng) == SeedState(seed)

\* An idle worker takes the next task and enters _run_simulation_chunk:
\* np.random.seed(seed) raises ValueError for a seed outside 0..2^32-1, and
\* the exception is the task's outcome.
WorkerTake(p) ==
  /\ pc = "map"
  /\ procs[p].task = 0
  /\ next_task <= Len(sim_chunks)
  /\ next_task' = next_task + 1
  /\ LET chunk == sim_chunks[next_task]
     IN IF SeedLegal(chunk.seed)
        THEN /\ procs' = [procs EXCEPT ![p] =
                            [task |-> next_task,
                             rng |-> ChunkRngState(chunk.seed, procs[p].rng),
                             positions |-> <<>>, lap_times |-> <<>>]]
             /\ UNCHANGED <<chunk_results, map_exc>>
        ELSE /\ chunk_results' = [chunk_results EXCEPT ![next_task] =
                                    [Pending EXCEPT !.state = "ValueError"]]
             /\ map_exc' = IF map_exc = None
                           THEN [none |-> FALSE, task |-> next_task,
                                 exc |-> "ValueError"]
                           ELSE map_exc
             /\ UNCHANGED procs
  /\ UNCHANGED <<session, strategy, sel, engine, pc, config, passed, driver, gpu, sim_chunks, crashes,
                 np_rng, torch_rng, gpu_result, result, error, run, first>>

\* One iteration of the worker's loop, for _ in range(n_sims).
WorkerTrial(p) ==
  /\ pc = "map"
  /\ procs[p].task # 0
  /\ Len(procs[p].positions) < sim_chunks[procs[p].task].n_sims
  /\ LET t == CpuTrial(driver, procs[p].rng)
     IN procs' = [procs EXCEPT ![p] =
                    [@ EXCEPT !.rng = t.rng,
                              !.positions = Append(@, t.position),
                              !.lap_times = Append(@, t.lap_time)]]
  /\ UNCHANGED <<session, strategy, sel, engine, pc, config, passed, driver, gpu, sim_chunks, next_task,
                 chunk_results, map_exc, crashes, np_rng, torch_rng, gpu_result, result,
                 error, run, first>>

\* (faulty variant: results are listed in the order the tasks complete)
CompletionSlot(p) ==
  1 + Cardinality({k \in 1..Len(chunk_results) : chunk_results[k].state # "pending"})
\* pool.map lists the results by task, not by completion
TaskSlot(p) == procs[p].task

\* The loop is over: the worker returns (positions, lap_times) for its task.
WorkerReturn(p) ==
  /\ pc = "map"
  /\ procs[p].task # 0
  /\ Len(procs[p].positions) >= sim_chunks[procs[p].task].n_sims
  /\ chunk_results' = [chunk_results EXCEPT ![TaskSlot(p)] =
                         [state |-> "ok", positions |-> procs[p].positions,
                          lap_times |-> procs[p].lap_times]]
  /\ procs' = [procs EXCEPT ![p] = Idle(procs[p].rng)]
  /\ UNCHANGED <<session, strategy, sel, engine, pc, config, passed, driver, gpu, sim_chunks, next_task,
                 map_exc, crashes, np_rng, torch_rng, gpu_result, result, error, run,
                 first>>

\* A worker process dies with a task in hand (killed by the system).  The
\* pool starts a replacement process; the task is never run again and never
\* gets an outcome.
WorkerDies(p) ==
  /\ pc = "map"
  /\ procs[p].task # 0
  /\ crashes < MaxCrashes
  /\ crashes' = crashes + 1
  /\ procs' = [procs EXCEPT ![p] = Idle(np_rng)]
  /\ UNCHANGED <<session, strategy, sel, engine, pc, config, passed, driver, gpu, sim_chunks, next_task,
                 chunk_results, map_exc, np_rng, torch_rng, gpu_result, result,
                 error, run, first>>

\* (faulty variant: one outcome is enough)
SomeTaskDone == \E k \in 1..Len(chunk_results) : chunk_results[k].state # "pending"
\* pool.map has an outcome for every task
AllTasksDone == \A k \in 1..Len(chunk_results) : chunk_results[k].state # "pending"

\* (faulty variant: whatever the tasks left is handed back, exceptions dropped)
PoolMapReturnPartial ==
  /\ pc = "map"
  /\ AllTasksDone
  /\ procs' = <<>>
  /\ pc' = "aggregate"
  /\ UNCHANGED <<session, strategy, sel, engine, config, passed, driver, gpu, sim_chunks, next_task,
                 chunk_results, map_exc, crashes, np_rng, torch_rng, gpu_result,
                 result, error, run, first>>

\* pool.map returns once every task has an outcome: it re-raises the first
\* exception it received, or hands back the results in task order; leaving
\* the with block terminates the pool.
PoolMapReturn ==
  /\ pc = "map"
  /\ AllTasksDone
  /\ procs' = <<>>
  /\ IF map_exc # None
     THEN Raise(map_exc.exc)
     ELSE pc' = "aggregate" /\ UNCHANGED error
  /\ UNCHANGED <<session, strategy, sel, engine, config, passed, driver, gpu, sim_chunks, next_task,
                 chunk_results, map_exc, crashes, np_rng, torch_rng, gpu_result, result,
                 run, first>>

\* (faulty variant: the last chunk result left out)
RECURSIVE MergeAllButLast(_, _)
MergeAllButLast(results, field) ==
  IF Len(results) <= 1 THEN <<>>
  ELSE (IF field = "positions" THEN Head(results).positions
        ELSE Head(results).lap_times) \o MergeAllButLast(Tail(results), field)
\* all_positions / all_lap_times: the chunks' lists, extended in task order
RECURSIVE Merge(_, _)
Merge(results, field) ==
  IF results = <<>> THEN <<>>
  ELSE (IF field = "positions" THEN Head(results).positions
        ELSE Head(results).lap_times) \o Merge(Tail(results), field)

\* The PredictionResult built from the merged lists.
CpuResult(d, all_positions, all_lap_times) ==
  LET dist == CalculateDistribution(all_positions)
      predicted == MostLikelyPosition(dist)
      act == CpuDetermineAction(d, predicted)
  IN [predicted_position |-> predicted,
      confidence |-> CalculateConfidence(dist, predicted),
      position_distribution |-> dist,
      expected_lap_time |-> Mean(all_lap_times),
      lap_time_std |-> Std(all_lap_times),
      recommended_action |-> act.action,
      action_confidence |-> act.confidence,
      simulations_run |-> Len(all_positions)]

\* The warnings reported alongside a result: PredictionResult has no field
\* for them and predict_race_outcome emits none.
ResultWarnings(r) == {}

\* The rest of predict_race_outcome: merge, statistics, action, return.
\* max() of the empty distribution raises ValueError.
CpuAggregate ==
  /\ pc = "aggregate"
  /\ LET all_positions == Merge(chunk_results, "positions")
         all_lap_times == Merge(chunk_results, "lap_times")
     IN IF all_positions = <<>>
        THEN /\ Raise("ValueError")
             /\ UNCHANGED result
        ELSE /\ result' = CpuResult(driver, all_positions, all_lap_times)
             /\ pc' = "returned"
             /\ UNCHANGED error
  /\ UNCHANGED <<session, strategy, sel, engine, config, passed, driver, gpu, sim_chunks, next_task,
                 procs, chunk_results, map_exc, crashes, np_rng, torch_rng, gpu_result,
                 run, first>>

\* The caller, having drawn any number of values from np.random, calls
\* predict_race_outcome again on the same engine with the same DriverState.
CpuCallAgain ==
  /\ pc = "returned" /\ engine = "CPU" /\ run = 1
  /\ first' = result
  /\ run' = 2
  /\ pc' = "ready"
  /\ np_rng' \in ArbitraryRngStates
  /\ result' = None
  /\ sim_chunks' = <<>>
  /\ chunk_results' = <<>>
  /\ next_task' = 1
  /\ UNCHANGED <<session, strategy, sel, engine, config, passed, driver, gpu, procs, map_exc, crashes, torch_rng,
                 gpu_result, error>>

\* ------------------------------------------------ GPUMonteCarloEngine
\* (faulty variant: use_gpu ignored)
DeviceIgnoresUseGpu(use_gpu, torch) == IF torch # "absent" THEN torch ELSE "none"
\* self.device = DEVICE if (use_gpu and TORCH_AVAILABLE) else None
DeviceFor(use_gpu, torch) ==
  IF use_gpu /\ torch # "absent" THEN torch ELSE "none"

\* __init__
GpuConstruct ==
  /\ pc = "new" /\ engine = "GPU"
  /\ gpu' = [gpu EXCEPT !.device = DeviceFor(gpu.use_gpu, gpu.torch)]
  /\ pc' = "ready"
  /\ UNCHANGED <<session, strategy, sel, engine, config, passed, driver, sim_chunks, next_task, procs,
                 chunk_results, map_exc, crashes, np_rng, torch_rng, gpu_result, result,
                 error, run, first>>

\* win_prob = position_distribution.get(1, 0)
WinProbability(dist) == Prob(dist, 1)
\* podium_prob = sum(position_distribution.get(p, 0) for p in [1, 2, 3])
PodiumProbability(dist) == SumSeq([q \in 1..3 |-> Prob(dist, <<1, 2, 3>>[q])])
\* (faulty variant: range(1, 10))
PointsUpToNine(dist) == SumSeq([q \in 1..9 |-> Prob(dist, q)])
\* points_prob = sum(position_distribution.get(p, 0) for p in range(1, 11))
PointsProbability(dist) == SumSeq([q \in 1..10 |-> Prob(dist, q)])

\* The dict _run_gpu_simulation and _run_cpu_simulation build from a batch.
SimulationDict(d, batch) ==
  LET dist == CalculateDistribution(batch.positions)
      predicted == BincountArgmax(batch.positions)
      act == GpuDetermineAction(d, predicted)
  IN [predicted_position |-> predicted,
      position_probabilities |-> dist,
      lap_time_nan |-> batch.lap_nan,
      predicted_lap_time |-> Mean(batch.lap_times),
      lap_time_std |-> Std(batch.lap_times),
      recommended_action |-> act.action,
      action_confidence |-> act.confidence,
      win_probability |-> WinProbability(dist),
      podium_probability |-> PodiumProbability(dist),
      points_probability |-> PointsProbability(dist),
      expected_value |-> SumSeq([q \in 1..20 |-> (21 - q) * Prob(dist, q)]),
      batch_size |-> Len(batch.positions),
      computation_time_ms |-> 0]

\* simulations_run=self.n_simulations, read when the result object is built
SimulationsRunField(g, dict) == g.n_simulations

\* The GPUPredictionResult built from a simulation dict.
GpuResult(g, dict, device_used, speedup) ==
  [predicted_position |-> dict.predicted_position,
   position_probabilities |-> dict.position_probabilities,
   lap_time_nan |-> dict.lap_time_nan,
   predicted_lap_time |-> dict.predicted_lap_time,
   lap_time_std |-> dict.lap_time_std,
   recommended_action |-> dict.recommended_action,
   action_confidence |-> dict.action_confidence,
   win_probability |-> dict.win_probability,
   podium_probability |-> dict.podium_probability,
   points_probability |-> dict.points_probability,
   expected_value |-> dict.expected_value,
   simulations_run |-> SimulationsRunField(g, dict),
   device_used |-> device_used,
   speedup_vs_cpu |-> speedup]

\* predict_race_outcome, through the simulation.  On a cuda device:
\* _run_gpu_simulation (torch.randn raises RuntimeError for n < 0, an empty
\* bincount has no argmax: ValueError); the benchmark follows.  Otherwise:
\* _run_cpu_simulation (np.random.normal raises ValueError for n < 0, the
\* empty bincount likewise) and the result is returned with speedup 1.0.
GpuPredict ==
  /\ pc = "ready" /\ engine = "GPU"
  /\ LET n == gpu.n_simulations
     IN IF gpu.device = "cuda"
        THEN IF n < 0
             THEN /\ Raise("RuntimeError")
                  /\ UNCHANGED <<gpu_result, torch_rng, np_rng, result>>
             ELSE IF n = 0
             THEN /\ Raise("ValueError")
                  /\ UNCHANGED <<gpu_result, torch_rng, np_rng, result>>
             ELSE LET batch == VectorBatch(driver, n, torch_rng, TRUE)
                  IN /\ gpu_result' = SimulationDict(driver, batch)
                     /\ torch_rng' = batch.rng
                     /\ pc' = "benchmark"
                     /\ UNCHANGED <<np_rng, result, error>>
        ELSE IF n <= 0
             THEN /\ Raise("ValueError")
                  /\ UNCHANGED <<gpu_result, torch_rng, np_rng, result>>
             ELSE LET batch == VectorBatch(driver, n, np_rng, FALSE)
                  IN /\ result' = GpuResult(gpu, SimulationDict(driver, batch),
                                            "CPU (GPU unavailable)", 1)
                     /\ np_rng' = batch.rng
                     /\ pc' = "returned"
                     /\ UNCHANGED <<gpu_result, torch_rng, error>>
  /\ UNCHANGED <<session, strategy, sel, engine, config, passed, driver, gpu, sim_chunks, next_task,
                 procs, chunk_results, map_exc, crashes, run, first>>

\* (faulty variant: the field not set back)
BenchmarkKeeps(old_sims, n_sims) == n_sims
\* self.n_simulations = old_sims, the last statement of _benchmark_cpu
BenchmarkRestores(old_sims, n_sims) == old_sims

\* _benchmark_cpu(driver_state, n_sims=10000): self.n_simulations is set to
\* n_sims, _run_cpu_simulation runs the reference batch on np.random, and
\* self.n_simulations is set back.
GpuBenchmark ==
  /\ pc = "benchmark"
  /\ LET old_sims == gpu.n_simulations
         batch == VectorBatch(driver, BenchmarkSims, np_rng, FALSE)
     IN /\ np_rng' = batch.rng
        /\ gpu' = [gpu EXCEPT !.n_simulations =
                     BenchmarkRestores(old_sims, BenchmarkSims)]
  /\ pc' = "speedup"
  /\ UNCHANGED <<session, strategy, sel, engine, config, passed, driver, sim_chunks, next_task, procs,
                 chunk_results, map_exc, crashes, torch_rng, gpu_result, result, error,
                 run, first>>

\* speedup = cpu_time / result['computation_time_ms'], then the return.  The
\* dict's computation_time_ms is the literal 0: a float divided by it raises
\* ZeroDivisionError.
GpuSpeedup ==
  /\ pc = "speedup"
  /\ IF gpu_result.computation_time_ms = 0
     THEN /\ Raise("ZeroDivisionError")
          /\ UNCHANGED result
     ELSE /\ result' = GpuResult(gpu, gpu_result, "GPU", 1)
          /\ pc' = "returned"
          /\ UNCHANGED error
  /\ UNCHANGED <<session, strategy, sel, engine, config, passed, driver, gpu, sim_chunks, next_task,
                 procs, chunk_results, map_exc, crashes, np_rng, torch_rng, gpu_result,
                 run, first>>

\* ---------------------------------------------------------- specification
Next ==
  \/ CpuConstruct
  \/ CpuPredict
  \/ CpuPoolCreate
  \/ \E p \in DOMAIN procs : WorkerTake(p)
  \/ \E p \in DOMAIN procs : WorkerTrial(p)
  \/ \E p \in DOMAIN procs : WorkerReturn(p)
  \/ \E p \in DOMAIN procs : WorkerDies(p)
  \/ PoolMapReturn
  \/ CpuAggregate
  \/ CpuCallAgain
  \/ GpuConstruct
  \/ GpuPredict
  \/ GpuBenchmark
  \/ GpuSpeedup

Spec == Init /\ [][Next]_vars

\* ------------------------------------------- the action selectors alone
\* _determine_action of either engine is a function of the DriverState and the
\* predicted position only: here each is applied to every pair of a grid.
MaxPitStops == 2
SelectorDrivers ==
  { MkDriver(pos, age, "MEDIUM", 60, ScenarioLaps, pits) :
      pos \in 0..21, age \in {0, 19, 20, 21, 40}, pits \in 0..MaxPitStops }

InitSelector ==
  /\ engine = "none"
  /\ pc = "select"
  /\ config = NoConfig
  /\ passed = NoConfig
  /\ driver \in SelectorDrivers
  /\ gpu = NoGpu
  /\ sim_chunks = <<>>
  /\ next_task = 1
  /\ procs = <<>>
  /\ chunk_results = <<>>
  /\ map_exc = None
  /\ crashes = 0
  /\ np_rng = 0
  /\ torch_rng = 0
  /\ gpu_result = None
  /\ result = None
  /\ error = "none"
  /\ run = 1
  /\ first = None
  /\ sel \in {[predicted |-> q, cpu |-> None, gpu |-> None] : q \in 1..20}
  /\ strategy = None
  /\ session = None

SelectorFrame ==
  UNCHANGED <<session, strategy, engine, config, passed, driver, gpu, sim_chunks, next_task, procs,
              chunk_results, map_exc, crashes, np_rng, torch_rng, gpu_result,
              result, error, run, first>>

\* ParallelMonteCarloEngine._determine_action(driver_state, predicted, _)
ApplyCpuSelector ==
  /\ pc = "select"
  /\ sel' = [sel EXCEPT !.cpu = CpuDetermineAction(driver, sel.predicted)]
  /\ pc' = "cpu_selected"
  /\ SelectorFrame

\* GPUMonteCarloEngine._determine_action(driver_state, predicted, _)
ApplyGpuSelector ==
  /\ pc = "cpu_selected"
  /\ sel' = [sel EXCEPT !.gpu = GpuDetermineAction(driver, sel.predicted)]
  /\ pc' = "selected"
  /\ SelectorFrame

NextSelector == ApplyCpuSelector \/ ApplyGpuSelector

SpecSelector == InitSelector /\ [][NextSelector]_vars


\* --------------------------------------------------- strategy_engine.py
\* Positions are in tenths of a position, probabilities in percent.  The
\* engine draws from two process-wide generators: numpy's (np_rng) and the
\* one of Python's random module (strategy.py_rng).  The k-th draw after
\* numpy's generator was in state s0 reads the state Stream(s0, k); every
\* method is given s0 and the number of draws made before it.
SIMULATIONS == 2
PitWindowSims == 1
PitWindowSpan == 15

StrategyNames == <<"pit_now", "extend_stint", "push_mode", "fuel_save">>
ExpQuantiles == <<1, 5, 10, 21>>

\* np.random.normal(mean, sd), both in the same unit
NpNormal(s, mean, sd) == mean + (sd * NormalQuantiles[Uniform(s, 8) + 1]) \div 10
\* np.random.binomial(n, p), p in percent
NpBinomial(s, n, p) == Min(n, (n * p + Uniform(s, 100)) \div 100)
\* np.random.exponential(scale)
NpExponential(s, scale) == (scale * ExpQuantiles[Uniform(s, 4) + 1]) \div 10
\* np.random.uniform(lo, hi) on the grid of the unit
NpUniform(s, lo, hi) == lo + Uniform(s, hi - lo + 1)
\* np.random.randint(lo, hi): hi excluded
NpRandint(s, lo, hi) == lo + Uniform(s, hi - lo)
\* np.random.choice([0, -1, 1], p=[0.85, 0.10, 0.05])
NpIncidentChoice(s) ==
  LET u == Uniform(s, 20)
  IN IF u < 17 THEN 0 ELSE IF u < 19 THEN -1 ELSE 1

\* min(20, max(1, x)) on tenths
ClampTenths(x) == Min(200, Max(10, x))

\* round(x) of Python 3: ties go to the even integer; x in tenths
RoundHalfEven(x) ==
  LET q == x \div 10
      r == x % 10
  IN IF r > 5 \/ (r = 5 /\ q % 2 = 1) THEN q + 1 ELSE q

LapsRemaining(eng) == eng.total_laps - eng.current_lap

\* StrategyEngine._calculate_confidence(positions); s is the generator state
\* its np.random.uniform(-3, 3) reads
StrategyConfidence(eng, positions, s) ==
  LET base_confidence == Max(550, Min(980, 1000 - Std(positions) * 8))
      driver_consistency == 90 + (eng.driver_number % 13)
      race_stage_factor == 1000 - (LapsRemaining(eng) * 150) \div eng.total_laps
      confidence == (base_confidence * driver_consistency * race_stage_factor) \div 100000
                      + NpUniform(s, -30, 30)
  IN Max(60, Min(95, confidence \div 10))

\* The dict every _simulate_* returns from the positions of its trials: the
\* two draws after the loop are the one of expected_value, then the one of
\* _calculate_confidence.
StrategyOutcome(eng, positions, s0, drawn, lo, hi) ==
  LET avg_position == Mean(positions)
      position_gain == 10 * eng.current_position - avg_position
  IN [expected_value |-> position_gain * 10 + NpUniform(Stream(s0, drawn + 1), lo, hi),
      confidence |-> StrategyConfidence(eng, positions, Stream(s0, drawn + 2)),
      expected_position |-> RoundHalfEven(avg_position),
      position_change |-> position_gain]

\* StrategyEngine._simulate_pit_now: three draws a trial
PitNowDraws == 3 * SIMULATIONS + 2
SimulatePitNow(eng, s0, drawn) ==
  LET driver_skill == 12 + (eng.driver_number % 10)
      trial(i) ==
        LET b == drawn + 3 * (i - 1)
            positions_lost == NpNormal(Stream(s0, b + 1), 25, 8)
            position_recovery ==
              NpBinomial(Stream(s0, b + 2), Min(LapsRemaining(eng), 15), driver_skill)
            incident_factor == NpIncidentChoice(Stream(s0, b + 3))
        IN ClampTenths(10 * eng.current_position + positions_lost
                         - 10 * position_recovery + 10 * incident_factor)
  IN CHOOSE out \in
       { StrategyOutcome(eng, positions, s0, drawn + 3 * SIMULATIONS, -30, 30) :
           positions \in {[i \in 1..SIMULATIONS |-> trial(i)]} } : TRUE

\* StrategyEngine._simulate_stint_extension: five draws a trial
StintExtensionDraws == 5 * SIMULATIONS + 2
SimulateStintExtension(eng, s0, drawn) ==
  LET tire_wear_factor == 25 + (eng.driver_number % 7) * 5
      trial(i) ==
        LET b == drawn + 5 * (i - 1)
            laps_extended == NpRandint(Stream(s0, b + 1), 2, 10)
            degradation_loss ==
              (laps_extended * NpNormal(Stream(s0, b + 2), tire_wear_factor, 10)) \div 10
            traffic_advantage == NpExponential(Stream(s0, b + 3), 15)
            failure_risk == NpBinomial(Stream(s0, b + 4), 1, Min(15, laps_extended * 2))
            failure_penalty == failure_risk * NpUniform(Stream(s0, b + 5), 50, 100)
        IN ClampTenths(10 * eng.current_position + degradation_loss
                         - traffic_advantage + failure_penalty)
  IN CHOOSE out \in
       { StrategyOutcome(eng, positions, s0, drawn + 5 * SIMULATIONS, -20, 40) :
           positions \in {[i \in 1..SIMULATIONS |-> trial(i)]} } : TRUE

\* StrategyEngine._simulate_push_strategy: five draws a trial
PushStrategyDraws == 5 * SIMULATIONS + 2
SimulatePushStrategy(eng, s0, drawn) ==
  LET aggression_skill == 20 + (eng.driver_number % 5) * 4
      trial(i) ==
        LET b == drawn + 5 * (i - 1)
            laps_to_push == NpRandint(Stream(s0, b + 1), 3, 8)
            overtake_chance == NpBinomial(Stream(s0, b + 2), laps_to_push, aggression_skill)
            tire_risk == NpBinomial(Stream(s0, b + 3), laps_to_push, 8)
            mistake_risk == NpBinomial(Stream(s0, b + 4), 1, 12)
                              * NpUniform(Stream(s0, b + 5), 10, 30)
        IN ClampTenths(10 * eng.current_position - 10 * overtake_chance
                         + 10 * tire_risk + mistake_risk)
  IN CHOOSE out \in
       { StrategyOutcome(eng, positions, s0, drawn + 5 * SIMULATIONS, -30, 60) :
           positions \in {[i \in 1..SIMULATIONS |-> trial(i)]} } : TRUE

\* StrategyEngine._simulate_fuel_management: two draws a trial, three in
\* the last ten laps
FuelTrialDraws(eng) == IF LapsRemaining(eng) < 10 THEN 3 ELSE 2
FuelManagementDraws(eng) == FuelTrialDraws(eng) * SIMULATIONS + 2
SimulateFuelManagement(eng, s0, drawn) ==
  LET fuel_efficiency == (85 + (eng.driver_number % 8) * 2) \div 10
      trial(i) ==
        LET b == drawn + FuelTrialDraws(eng) * (i - 1)
            overtaken == NpBinomial(Stream(s0, b + 1), Min(LapsRemaining(eng), 10), 18)
            tire_preservation == NpUniform(Stream(s0, b + 2), 0, 15)
            endgame_bonus == IF LapsRemaining(eng) < 10
                             THEN NpUniform(Stream(s0, b + 3), 0, fuel_efficiency)
                             ELSE 0
        IN ClampTenths(10 * eng.current_position + 10 * overtaken
                         - tire_preservation - endgame_bonus)
  IN CHOOSE out \in
       { StrategyOutcome(eng, positions, s0,
                         drawn + FuelTrialDraws(eng) * SIMULATIONS, -10, 30) :
           positions \in {[i \in 1..SIMULATIONS |-> trial(i)]} } : TRUE

\* sorted(strategies.items(), key=expected_value, reverse=True): stable, so
\* equal values keep the order of the dict
SortedStrategies(strategies) ==
  LET before(a, b) ==
        \/ strategies[StrategyNames[a]].expected_value
             > strategies[StrategyNames[b]].expected_value
        \/ /\ strategies[StrategyNames[a]].expected_value
                = strategies[StrategyNames[b]].expected_value
           /\ a < b
      rank(b) == Cardinality({a \in 1..4 : before(a, b)})
  IN [k \in 1..4 |-> StrategyNames[CHOOSE b \in 1..4 : rank(b) = k - 1]]

\* StrategyEngine._format_decision: the label of the action, and the
\* position and the signed change its expectedOutcome text prints
FormatDecision(name, out) ==
  [action |-> name,
   confidence |-> out.confidence,
   expectedOutcome |-> [position |-> out.expected_position,
                        change |-> out.position_change]]

\* The laps range(current_lap, min(current_lap + 15, total_laps)) walks
PitLaps(eng) ==
  eng.current_lap .. (Min(eng.current_lap + PitWindowSpan, eng.total_laps) - 1)

\* pit_results of _calculate_pit_window: three draws a trial
PitWindowDraws(eng) == 3 * PitWindowSims * Cardinality(PitLaps(eng))
PitResults(eng, s0, drawn) ==
  LET driver_pace == 80 + (eng.driver_number % 9) * 3
      trial(lap, i) ==
        LET laps_until_pit == lap - eng.current_lap
            b == drawn + 3 * (laps_until_pit * PitWindowSims + (i - 1))
            traffic_factor == IF laps_until_pit \in {3, 4, 8, 9}
                              THEN NpExponential(Stream(s0, b + 1), 15)
                              ELSE NpUniform(Stream(s0, b + 1), 0, 20)
            tire_advantage == laps_until_pit * 2
                                + (NpUniform(Stream(s0, b + 2), 0, 15) * driver_pace) \div 100
            pit_loss == NpNormal(Stream(s0, b + 3), 25, 7)
        IN ClampTenths(10 * eng.current_position + pit_loss
                         + traffic_factor - tire_advantage)
  IN [lap \in PitLaps(eng) |-> Mean([i \in 1..PitWindowSims |-> trial(lap, i)])]

\* StrategyEngine._generate_pit_reason: random.choice of five texts, which
\* all name the lap; py is the state of Python's generator the choice reads
GeneratePitReason(lap, py) == [text |-> Uniform(py, 5) + 1, lap |-> lap]

\* The dict _calculate_pit_window builds from a non-empty pit_results
PitWindowOf(pit_results, py) ==
  LET laps == DOMAIN pit_results
      least == CHOOSE v \in {pit_results[l] : l \in laps} :
                 \A l \in laps : v <= pit_results[l]
      optimal_lap == CHOOSE l \in laps :
                       /\ pit_results[l] = least
                       /\ \A m \in laps : pit_results[m] = least => l <= m
      safe_laps == {l \in laps : pit_results[l] * 10 <= least * 11}
      worse(a, b) == \/ pit_results[a] > pit_results[b]
                     \/ pit_results[a] = pit_results[b] /\ a < b
      rank(b) == Cardinality({a \in laps : worse(a, b)})
      avoid == [k \in 1..Min(2, Cardinality(laps)) |->
                  CHOOSE b \in laps : rank(b) = k - 1]
  IN [optimal |-> optimal_lap,
      min |-> CHOOSE l \in safe_laps : \A m \in safe_laps : l <= m,
      max |-> CHOOSE l \in safe_laps : \A m \in safe_laps : l >= m,
      avoid |-> avoid,
      reason |-> GeneratePitReason(optimal_lap, py)]

\* StrategyEngine._calculate_pit_window, for a non-empty range of laps
CalculatePitWindow(eng, s0, drawn, py) ==
  CHOOSE window \in
    { PitWindowOf(pit_results, py) :
        pit_results \in {PitResults(eng, s0, drawn)} } : TRUE

\* StrategyEngine._assess_strategy_risk: four draws
AssessStrategyRisk(eng, top, s0, drawn) ==
  LET driver_risk_factor == 100 + (eng.driver_number % 11) * 5
      race_stage_risk ==
        1000 + ((eng.total_laps - LapsRemaining(eng)) * 300) \div eng.total_laps
      position_risk == 100 + (eng.current_position - 1) * 2
      safety_car_risk ==
        (NpUniform(Stream(s0, drawn + 1), 50, 200) * race_stage_risk) \div 1000
      traffic_risk == (NpUniform(Stream(s0, drawn + 2), 80, 250) * position_risk) \div 100
      tire_risk ==
        (NpUniform(Stream(s0, drawn + 3), 30, 150) * driver_risk_factor) \div 100
      weather_risk == NpUniform(Stream(s0, drawn + 4), 20, 100)
      total_risk ==
        (((safety_car_risk + traffic_risk + tire_risk + weather_risk) \div 4)
           * (1000 + (100 - top.confidence) * 3)) \div 1000
  IN [level |-> IF total_risk < 150 THEN "LOW"
                ELSE IF total_risk < 250 THEN "MEDIUM" ELSE "HIGH",
      score |-> RoundHalfEven(total_risk),
      factors |-> <<RoundHalfEven(safety_car_risk), RoundHalfEven(traffic_risk),
                    RoundHalfEven(tire_risk), RoundHalfEven(weather_risk)>>]

\* The strategies dict of calculate_optimal_strategy, built in this order
Strategies(eng, s0) ==
  LET after_pit == PitNowDraws
      after_ext == after_pit + StintExtensionDraws
      after_push == after_ext + PushStrategyDraws
  IN [n \in {StrategyNames[k] : k \in 1..4} |->
        CASE n = "pit_now" -> SimulatePitNow(eng, s0, 0)
          [] n = "extend_stint" -> SimulateStintExtension(eng, s0, after_pit)
          [] n = "push_mode" -> SimulatePushStrategy(eng, s0, after_ext)
          [] OTHER -> SimulateFuelManagement(eng, s0, after_push)]
StrategiesDraws(eng) ==
  PitNowDraws + StintExtensionDraws + PushStrategyDraws + FuelManagementDraws(eng)

\* The package calculate_optimal_strategy returns from the strategies and
\* their order
StrategyPackage(eng, strategies, sorted, s0, py) ==
  [topDecision |-> FormatDecision(sorted[1], strategies[sorted[1]]),
   alternatives |-> <<FormatDecision(sorted[2], strategies[sorted[2]]),
                      FormatDecision(sorted[3], strategies[sorted[3]])>>,
   pitWindow |-> CalculatePitWindow(eng, s0, StrategiesDraws(eng), py),
   risk |-> AssessStrategyRisk(eng, strategies[sorted[1]], s0,
                               StrategiesDraws(eng) + PitWindowDraws(eng)),
   simulations |-> SIMULATIONS]

\* StrategyEngine.calculate_optimal_strategy from the generator states s0
\* (numpy) and py0 (random): the package it returns and the states it leaves.
\* min() of an empty pit_results raises ValueError.
CalculateOptimalStrategy(eng, s0, py0) ==
  IF PitLaps(eng) = {}
  THEN [error |-> "ValueError", result |-> None,
        np |-> Stream(s0, StrategiesDraws(eng)), py |-> py0]
  ELSE [error |-> "none",
        result |->
          CHOOSE package \in
            { StrategyPackage(eng, strategies, sorted, s0, RngNext(py0)) :
                strategies \in {Strategies(eng, s0)},
                sorted \in {SortedStrategies(Strategies(eng, s0))} } : TRUE,
        np |-> Stream(s0, StrategiesDraws(eng) + PitWindowDraws(eng) + 4),
        py |-> RngNext(py0)]

\* The seed StrategyEngine.__init__ gives both generators
StrategySeed(driver_number, current_lap) == driver_number * 1000 + current_lap

\* random.seed(seed): the state of Python's generator after it; the mutation
\* leaves the generator as it was
PyRngNotSeeded(seed, py) == py
PyRngSeeded(seed, py) == SeedState(seed)

\* The calls of calculate_driver_strategy that are made
StrategyDrivers == {-1, 1, 4, 16, 44, 63, 81}
RaceStates == [current_lap : {10, 50, 58}, total_laps : {58}]
MaxStrategyCalls == 2

InitStrategy ==
  /\ engine = "none"
  /\ pc = "strategy"
  /\ config = NoConfig
  /\ passed = NoConfig
  /\ driver = MkDriver(1, 0, "MEDIUM", 60, ScenarioLaps, 0)
  /\ gpu = NoGpu
  /\ sim_chunks = <<>>
  /\ next_task = 1
  /\ procs = <<>>
  /\ chunk_results = <<>>
  /\ map_exc = None
  /\ crashes = 0
  /\ np_rng \in ArbitraryRngStates
  /\ torch_rng = 0
  /\ gpu_result = None
  /\ result = None
  /\ error = "none"
  /\ run = 1
  /\ first = None
  /\ sel = None
  /\ strategy \in {[at |-> "idle", driver_number |-> d, race_state |-> r,
                    engine |-> None, py_rng |-> py, result |-> None,
                    error |-> "none", first |-> None, calls |-> 1, disturbed |-> FALSE] :
                     d \in StrategyDrivers, r \in RaceStates,
                     py \in ArbitraryRngStates}
  /\ session = None

StrategyFrame ==
  UNCHANGED <<session, sel, engine, pc, config, passed, driver, gpu, sim_chunks, next_task,
              procs, chunk_results, map_exc, crashes, torch_rng, gpu_result,
              result, error, run, first>>

\* calculate_driver_strategy, first statement: StrategyEngine(driver_number,
\* race_state).  np.random.seed raises ValueError on a seed outside
\* [0, 2^32), before random.seed is reached.
StrategyConstruct ==
  /\ pc = "strategy"
  /\ strategy.at = "idle"
  /\ LET seed == StrategySeed(strategy.driver_number, strategy.race_state.current_lap)
     IN IF ~SeedLegal(seed)
        THEN /\ strategy' = [strategy EXCEPT !.at = "raised", !.error = "ValueError"]
             /\ UNCHANGED np_rng
        ELSE /\ np_rng' = SeedState(seed)
             /\ strategy' =
                  [strategy EXCEPT
                     !.at = "constructed",
                     !.py_rng = PyRngSeeded(seed, strategy.py_rng),
                     !.engine =
                       [driver_number |-> strategy.driver_number,
                        current_lap |-> strategy.race_state.current_lap,
                        total_laps |-> strategy.race_state.total_laps,
                        current_position |-> ((strategy.driver_number * 7) % 20) + 1]]
  /\ StrategyFrame

\* calculate_driver_strategy, second statement: return
\* engine.calculate_optimal_strategy()
StrategyCalculate ==
  /\ pc = "strategy"
  /\ strategy.at = "constructed"
  /\ LET r == CalculateOptimalStrategy(strategy.engine, np_rng, strategy.py_rng)
     IN /\ np_rng' = r.np
        /\ strategy' = [strategy EXCEPT
                          !.at = IF r.error = "none" THEN "returned" ELSE "raised",
                          !.error = r.error,
                          !.result = r.result,
                          !.py_rng = r.py]
  /\ StrategyFrame

\* Other code of the process draws from the two generators, or reseeds
\* them, between two calls (strategy.disturbed records that it did).
OtherCodeDraws ==
  /\ pc = "strategy"
  /\ strategy.at = "returned"
  /\ strategy.calls < MaxStrategyCalls
  /\ ~strategy.disturbed
  /\ \E s \in ArbitraryRngStates, py \in ArbitraryRngStates :
       /\ np_rng' = s
       /\ strategy' = [strategy EXCEPT !.py_rng = py, !.disturbed = TRUE]
  /\ StrategyFrame

\* The caller calls calculate_driver_strategy again with the same arguments.
StrategyCallAgain ==
  /\ pc = "strategy"
  /\ strategy.at = "returned"
  /\ strategy.calls < MaxStrategyCalls
  /\ strategy' = [strategy EXCEPT !.at = "idle", !.calls = @ + 1,
                                  !.first = IF strategy.calls = 1
                                            THEN strategy.result ELSE @,
                                  !.engine = None, !.result = None]
  /\ UNCHANGED np_rng
  /\ StrategyFrame

NextStrategy ==
  \/ StrategyConstruct
  \/ StrategyCalculate
  \/ OtherCodeDraws
  \/ StrategyCallAgain

SpecStrategy == InitStrategy /\ [][NextStrategy]_vars


\* ------------------------------------------------ extract_driver_state
\* A lap record of the session data; lap_duration 0 stands for a missing
\* value (the code skips both).
LapRecord(d, n, duration) ==
  [driver_number |-> d, lap_number |-> n, lap_duration |-> duration]
PitRecord(d, n) == [driver_number |-> d, lap_number |-> n]

\* The default argument current_lap=None
NoLap == [given |-> FALSE, value |-> 0]
Lap(n) == [given |-> TRUE, value |-> n]

\* `current_lap or other`: None and 0 both give other
LapOr(current_lap, other) ==
  IF current_lap.given /\ current_lap.value # 0 THEN current_lap.value ELSE other

\* [x for x in records if x.get('driver_number') == driver_number]
RECURSIVE OfDriver(_, _)
OfDriver(records, driver_number) ==
  IF records = <<>> THEN <<>>
  ELSE (IF Head(records).driver_number = driver_number
        THEN <<Head(records)>> ELSE <<>>)
       \o OfDriver(Tail(records), driver_number)

\* sorted(driver_laps, key=lap_number): stable insertion
RECURSIVE SortedByLap(_)
SortedByLap(laps) ==
  IF laps = <<>> THEN <<>>
  ELSE LET rest == SortedByLap(SubSeq(laps, 1, Len(laps) - 1))
           x == laps[Len(laps)]
           k == Cardinality({i \in 1..Len(rest) : rest[i].lap_number <= x.lap_number})
       IN SubSeq(rest, 1, k) \o <<x>> \o SubSeq(rest, k + 1, Len(rest))

\* s[-5:]
LastFive(s) == SubSeq(s, Max(1, Len(s) - 4), Len(s))

\* max(r.get('lap_number', 0) for r in records), records not empty
RECURSIVE MaxLapNumber(_)
MaxLapNumber(records) ==
  IF Len(records) = 1 THEN Head(records).lap_number
  ELSE Max(Head(records).lap_number, MaxLapNumber(Tail(records)))

\* the durations of the laps that have one, and a positive one
RECURSIVE PositiveDurations(_)
PositiveDurations(laps) ==
  IF laps = <<>> THEN <<>>
  ELSE (IF Head(laps).lap_duration > 0 THEN <<Head(laps).lap_duration>> ELSE <<>>)
       \o PositiveDurations(Tail(laps))

\* tire_age: laps since the last pit stop
TireAge(actual_current_lap, pit_stops) ==
  IF pit_stops # <<>>
  THEN actual_current_lap - MaxLapNumber(pit_stops)
  ELSE actual_current_lap

\* fuel_load = max(0, 100 - (actual_current_lap / 60 * 100)), in percent,
\* rounded up to a whole percent
FuelLoad(actual_current_lap) == Max(0, 100 - (actual_current_lap * 100) \div 60)

\* extract_driver_state(driver_number, session_data, current_lap)
ExtractDriverState(driver_number, session_data, current_lap) ==
  LET driver_laps == OfDriver(session_data.laps, driver_number)
      recent_lap_times == PositiveDurations(LastFive(SortedByLap(driver_laps)))
      actual_current_lap == LapOr(current_lap, MaxLapNumber(driver_laps))
      pit_stops == OfDriver(session_data.pit_stops, driver_number)
  IN IF driver_laps = <<>>
     THEN [driver_number |-> driver_number,
           current_lap |-> LapOr(current_lap, 10),
           position |-> 10, tire_age |-> 10, tire_compound |-> "MEDIUM",
           fuel_load |-> 50, recent_lap_times |-> <<90000>>,
           pit_stops_made |-> 0]
     ELSE [driver_number |-> driver_number,
           current_lap |-> actual_current_lap,
           position |-> ((driver_number * 7) % 20) + 1,
           tire_age |-> TireAge(actual_current_lap, pit_stops),
           tire_compound |-> "MEDIUM",
           fuel_load |-> FuelLoad(actual_current_lap),
           recent_lap_times |-> IF recent_lap_times # <<>>
                                THEN recent_lap_times ELSE <<90000>>,
           pit_stops_made |-> Len(pit_stops)]

\* The sessions, drivers and laps extract_driver_state is applied to
MaxSessionLaps == 6
SessionDrivers == {0, 1, 44}
SessionDurations == {0, 89500}
SessionLapLists ==
  { [i \in 1..n |-> LapRecord(d, IF rev THEN 20 + n - i ELSE 19 + i,
                              IF i % 2 = 1 THEN odd ELSE 90100)] :
      d \in {1, 44}, n \in {0, 1, MaxSessionLaps}, rev \in BOOLEAN,
      odd \in SessionDurations }
SessionPitLists ==
  {<<>>, <<PitRecord(1, 15)>>, <<PitRecord(1, 5), PitRecord(1, 15)>>,
   <<PitRecord(44, 15), PitRecord(1, 5)>>}
SessionLapArguments == {NoLap, Lap(-3), Lap(0), Lap(10), Lap(20), Lap(70)}

InitExtract ==
  /\ engine = "none"
  /\ pc = "extract"
  /\ config = NoConfig
  /\ passed = NoConfig
  /\ driver = MkDriver(1, 0, "MEDIUM", 60, ScenarioLaps, 0)
  /\ gpu = NoGpu
  /\ sim_chunks = <<>>
  /\ next_task = 1
  /\ procs = <<>>
  /\ chunk_results = <<>>
  /\ map_exc = None
  /\ crashes = 0
  /\ np_rng = 0
  /\ torch_rng = 0
  /\ gpu_result = None
  /\ result = None
  /\ error = "none"
  /\ run = 1
  /\ first = None
  /\ sel = None
  /\ strategy = None
  /\ session \in {[driver_number |-> d,
                   session_data |-> [laps |-> laps, pit_stops |-> pits],
                   current_lap |-> lap, state |-> None] :
                    d \in SessionDrivers, laps \in SessionLapLists,
                    pits \in SessionPitLists, lap \in SessionLapArguments}

\* extract_driver_state reads its arguments and builds a new DriverState
ApplyExtract ==
  /\ pc = "extract"
  /\ session.state = None
  /\ session' = [session EXCEPT !.state =
                   ExtractDriverState(session.driver_number, session.session_data,
                                      session.current_lap)]
  /\ pc' = "extracted"
  /\ UNCHANGED <<strategy, sel, engine, config, passed, driver, gpu, sim_chunks,
                 next_task, procs, chunk_results, map_exc, crashes, np_rng,
                 torch_rng, gpu_result, result, error, run, first>>

NextExtract == ApplyExtract

SpecExtract == InitExtract /\ [][NextExtract]_vars

\* ================================================================ claims
Returned == pc = "returned"
CpuReturned == pc = "returned" /\ engine = "CPU"
GpuReturned == pc = "returned" /\ engine = "GPU"

\* The distribution of the returned object, whichever engine built it.
ReturnedDistribution ==
  IF engine = "CPU" THEN result.position_distribution
  ELSE result.position_probabilities

RECURSIVE SumCounts(_, _)
SumCounts(counts, keys) ==
  IF keys = {} THEN 0
  ELSE LET k == CHOOSE x \in keys : TRUE
       IN counts[k] + SumCounts(counts, keys \ {k})

\* Trials the workers handed back, summed over the chunks.
MergedTrials == SumSeq([k \in 1..Len(chunk_results) |-> Len(chunk_results[k].positions)])
PlannedTrials == SumSeq([k \in 1..Len(sim_chunks) |-> sim_chunks[k].n_sims])

\* C1: simulations_run of a returned result equals the requested n_simulations
\* and the number of trials merged into the distribution: the sum of the chunk
\* sizes on the CPU engine, the batch size on the GPU engine, whose
\* n_simulations field holds the requested value again after _benchmark_cpu.
C1_SimulationsRunIsRequestedAndMerged ==
  /\ CpuReturned =>
       /\ result.simulations_run = passed.n_simulations
       /\ result.simulations_run = MergedTrials
       /\ result.simulations_run = PlannedTrials
       /\ result.simulations_run = result.position_distribution.total
  /\ GpuReturned =>
       /\ result.simulations_run = gpu.requested
       /\ result.simulations_run = result.position_probabilities.total
  /\ pc = "speedup" =>
       /\ SimulationsRunField(gpu, gpu_result) = gpu.requested
       /\ gpu_result.batch_size = gpu.requested
C1_Witness ==
  /\ CpuReturned
  /\ passed.n_simulations = 3 /\ passed.n_cores = 2
  /\ Len(chunk_results[1].positions) = 2 /\ Len(chunk_results[2].positions) = 1

\* C2: the counts of the returned position distribution sum to the number of
\* merged trials, which is positive, so the probabilities count/total sum to 1.
C2_DistributionSumsToOne ==
  Returned =>
    LET dist == ReturnedDistribution
    IN /\ dist.total > 0
       /\ SumCounts(dist.counts, DOMAIN dist.counts) = dist.total
       /\ \A p \in DOMAIN dist.counts : dist.counts[p] >= 1
       /\ engine = "CPU" => dist.total = MergedTrials
C2_Witness ==
  /\ Returned
  /\ Cardinality(DOMAIN ReturnedDistribution.counts) >= 2
  /\ \E p \in DOMAIN ReturnedDistribution.counts : ReturnedDistribution.counts[p] >= 2

\* C3: predicted_position and every key of the distribution lie in 1..20, in
\* every returned result and in the dict of the torch path, whatever integer
\* the driver's position is.
C3_PositionsInRange ==
  /\ Returned =>
       /\ result.predicted_position \in 1..20
       /\ DOMAIN ReturnedDistribution.counts \subseteq 1..20
  /\ gpu_result # None =>
       /\ gpu_result.predicted_position \in 1..20
       /\ DOMAIN gpu_result.position_probabilities.counts \subseteq 1..20
C3_Witness ==
  /\ CpuReturned
  /\ driver.position = 25
  /\ result.predicted_position = 20

\* C4: with tire_age > 20 the recommended action is PIT_NOW with confidence 90
\* on the CPU engine, on the torch path and on the numpy fallback path.
C4_TireCriticalPitsNow ==
  driver.tire_age > 20 =>
    /\ Returned => /\ result.recommended_action = "PIT_NOW"
                   /\ result.action_confidence = 90
    /\ gpu_result # None => /\ gpu_result.recommended_action = "PIT_NOW"
                            /\ gpu_result.action_confidence = 90
C4_Witness ==
  /\ CpuReturned
  /\ driver.tire_age > 20
  /\ driver.position - result.predicted_position < -1
  /\ result.recommended_action = "PIT_NOW"


\* C5: a call with n_simulations <= 0 (and a valid worker count) fails with
\* InvalidConfig before any work: no worker process is started, no trial is
\* run, no result is produced.
C5_NoWorkForInvalidSimulations ==
  (engine = "CPU" /\ passed.n_simulations <= 0 /\ passed.n_cores >= 1) =>
    /\ procs = <<>>
    /\ \A k \in 1..Len(chunk_results) : chunk_results[k].state = "pending"
    /\ result = None
    /\ pc = "raised" => error = "InvalidConfig"

\* C6: a worker count below 1 other than the auto value -1 (n_simulations
\* being valid) is rejected with
\* InvalidConfig, no chunk built and no worker started; only -1 is replaced by
\* the hardware parallelism.
C6_InvalidWorkerCountRejected ==
  /\ (engine = "CPU" /\ passed.n_simulations > 0
        /\ passed.n_cores < 1 /\ passed.n_cores # -1) =>
       /\ sim_chunks = <<>>
       /\ procs = <<>>
       /\ result = None
       /\ config.n_cores = passed.n_cores
       /\ pc = "raised" => error = "InvalidConfig"
  /\ (engine = "CPU" /\ passed.n_cores = -1 /\ pc # "new") =>
       config.n_cores = HardwareCores

\* C7: the CPU selector is the priority-ordered table over
\* position_change = position - predicted: tire_age > 20: (PIT_NOW, 90); else
\* change > 1: (PUSH_MODE, 85); else change < -1 and no pit stop yet:
\* (PIT_SOON, 80); else change < -1 and a pit stop made: (FUEL_SAVE, 75);
\* otherwise (MAINTAIN_PACE, 82); exactly one rule fires for every input.
C7_Fires(r, d, q) ==
  LET change == d.position - q
      r1 == d.tire_age > 20
      r2 == change > 1
      r3 == change < -1 /\ d.pit_stops_made < 1
      r4 == change < -1 /\ d.pit_stops_made >= 1
  IN CASE r = 1 -> r1
       [] r = 2 -> ~r1 /\ r2
       [] r = 3 -> ~r1 /\ ~r2 /\ r3
       [] r = 4 -> ~r1 /\ ~r2 /\ ~r3 /\ r4
       [] OTHER -> ~r1 /\ ~r2 /\ ~r3 /\ ~r4
C7_Outcome(r) ==
  CASE r = 1 -> Act("PIT_NOW", 90)
    [] r = 2 -> Act("PUSH_MODE", 85)
    [] r = 3 -> Act("PIT_SOON", 80)
    [] r = 4 -> Act("FUEL_SAVE", 75)
    [] OTHER -> Act("MAINTAIN_PACE", 82)
C7_CpuSelectorIsPriorityTable ==
  pc \in {"cpu_selected", "selected"} =>
    /\ Cardinality({r \in 1..5 : C7_Fires(r, driver, sel.predicted)}) = 1
    /\ \A r \in 1..5 : C7_Fires(r, driver, sel.predicted) => sel.cpu = C7_Outcome(r)
C7_Witness ==
  /\ pc = "cpu_selected"
  /\ driver.tire_age = 20 /\ driver.pit_stops_made = 2
  /\ driver.position - sel.predicted = -2
  /\ sel.cpu = Act("FUEL_SAVE", 75)

\* C8: the GPU engine's selector returns the same (action, confidence) as the
\* CPU engine's for every position in 1..20, predicted position, tire_age and
\* pit_stops_made; in particular FUEL_SAVE, 75 after a pit stop.
C8_GpuSelectorEqualsCpuSelector ==
  (pc = "selected" /\ driver.position \in 1..20) => sel.gpu = sel.cpu

\* C9: a repeated call of the CPU engine with the same DriverState and the same
\* SimulationConfig returns the same position_distribution, predicted_position
\* and recommended_action as the first call.
C9_RepeatedRunIsIdentical ==
  (CpuReturned /\ run = 2) =>
    /\ result.position_distribution = first.position_distribution
    /\ result.predicted_position = first.predicted_position
    /\ result.recommended_action = first.recommended_action
    /\ result = first
C9_Witness ==
  /\ CpuReturned /\ run = 2
  /\ passed.n_simulations = 3 /\ passed.n_cores = 2
  /\ Cardinality(DOMAIN result.position_distribution.counts) >= 2

\* C10: once a worker has failed on its chunk (its task raised, or its process
\* died), the call returns no result and no aggregate is formed from the
\* chunks of the other workers.
C10_WorkerFailureFailsCall ==
  (map_exc # None \/ crashes > 0) =>
    /\ result = None
    /\ pc \notin {"aggregate", "returned"}
C10_Witness ==
  /\ pc = "raised"
  /\ map_exc # None
  /\ \E k \in 1..Len(chunk_results) :
       chunk_results[k].state = "ok" /\ Len(chunk_results[k].positions) >= 1

\* C11: when a worker's task has raised (the configuration being valid), the
\* error that reaches the caller is a WorkerFailure (identifying the failed
\* worker's index and the trial range of its chunk).
C11_WorkerFailureReported ==
  (engine = "CPU" /\ passed.n_simulations > 0 /\ passed.n_cores >= 1
     /\ pc = "raised" /\ map_exc # None) => error = "WorkerFailure"

\* C12: with a cuda device (and n_simulations > 0) the call of the GPU engine
\* does not fail: after the device batch and the reference batch of
\* _benchmark_cpu it returns a result marked as run on the accelerator, with
\* speedup_vs_cpu = cpu_time / on-device computation time.
C12_AcceleratorCallReturns ==
  (engine = "GPU" /\ gpu.use_gpu /\ gpu.torch = "cuda" /\ gpu.requested > 0) =>
    /\ pc # "raised"
    /\ Returned => result.device_used = "GPU"

\* C13: without an accelerator (torch missing, no CUDA, or use_gpu false) and
\* with n_simulations > 0, the call of the GPU engine never raises and starts
\* no worker process; the result it returns is marked as the CPU fallback, has
\* speedup 1, counts the requested trials and holds a distribution over 1..20.
C13_FallbackWithoutAccelerator ==
  (engine = "GPU" /\ gpu.requested > 0
     /\ (~gpu.use_gpu \/ gpu.torch # "cuda")) =>
    /\ pc \notin {"raised", "benchmark", "speedup"}
    /\ procs = <<>> /\ sim_chunks = <<>>
    /\ gpu_result = None
    /\ torch_rng = 0
    /\ Returned =>
         /\ result.device_used = "CPU (GPU unavailable)"
         /\ result.speedup_vs_cpu = 1
         /\ result.simulations_run = gpu.requested
         /\ result.position_probabilities.total = gpu.requested
         /\ result.predicted_position \in 1..20
         /\ result.recommended_action \in
              {"PIT_NOW", "PUSH_MODE", "PIT_SOON", "MAINTAIN_PACE"}
C13_Witness ==
  /\ GpuReturned
  /\ ~gpu.use_gpu /\ gpu.torch = "cuda"
  /\ gpu.requested = 3
  /\ result.device_used = "CPU (GPU unavailable)"

\* C14: the backend that produced a result drew its trials by the CPU worker's
\* law: in every lap-time tier the position change has the same values with
\* the same probabilities, and the incident's extra change is over
\* {-2,-1,1,2,3} with the same probabilities; on the numpy fallback (a
\* returned GPU-engine result) and on the torch path (its dict).
C14_BackendsShareTrialLaw ==
  /\ GpuReturned =>
       /\ \A tier \in Tiers : NumpyTierLaw(tier) = CpuTierLaw(tier)
       /\ NumpyIncidentLaw = CpuIncidentLaw
  /\ gpu_result # None =>
       /\ \A tier \in Tiers : TorchTierLaw(tier) = CpuTierLaw(tier)
       /\ TorchIncidentLaw = CpuIncidentLaw

\* C15: with recent_lap_times present but empty, the base lap time of the
\* trials is the default 90.0 s and the spread the default 0.5 s; with exactly
\* one sample the spread is 0.5 s; in the CPU worker and in both paths of the
\* GPU engine, so that no lap-time field of a result is NaN.
C15_LapTimeDefaults ==
  /\ driver.recent_lap_times = <<>> =>
       /\ CpuAvgLapTime(driver) = 90000 /\ CpuLapTimeVariance(driver) = 500
       /\ GpuLapTimeVar(driver) = 500
       /\ GpuReturned => ~result.lap_time_nan
       /\ gpu_result # None => ~gpu_result.lap_time_nan
  /\ Len(driver.recent_lap_times) = 1 =>
       /\ CpuLapTimeVariance(driver) = 500
       /\ GpuLapTimeVar(driver) = 500

\* C16: every field of the caller's SimulationConfig object keeps the value
\* the caller gave it (n_cores included when it was passed as -1), through
\* construction and every call.
C16_ConfigNeverMutated ==
  (engine = "CPU" /\ passed.n_simulations > 0 /\ passed.random_seed >= 0) =>
    \A f \in DOMAIN passed : config[f] = passed[f]

\* C17: predicted_position is a position of maximal probability in the
\* distribution of the same result, and the smallest of them when several
\* share the maximum; on the CPU engine (_get_most_likely_position) and on
\* both GPU-engine paths (bincount-argmax).
C17_IsSmallestArgmax(dist, p) ==
  /\ p \in DOMAIN dist.counts
  /\ \A q \in DOMAIN dist.counts :
       /\ dist.counts[q] <= dist.counts[p]
       /\ dist.counts[q] = dist.counts[p] => p <= q
C17_PredictedIsSmallestArgmax ==
  /\ Returned => C17_IsSmallestArgmax(ReturnedDistribution, result.predicted_position)
  /\ gpu_result # None =>
       C17_IsSmallestArgmax(gpu_result.position_probabilities,
                            gpu_result.predicted_position)
C17_Witness ==
  /\ CpuReturned
  /\ \E q \in DOMAIN result.position_distribution.counts :
       /\ q > result.predicted_position
       /\ result.position_distribution.counts[q] =
            result.position_distribution.counts[result.predicted_position]

\* C18: the CPU engine's confidence is clamp(60, 95, w) with
\* w = 70 * P(predicted) + 30 * (P(predicted-1) + P(predicted) + P(predicted+1)),
\* P the probabilities of the returned distribution and w itself read as the
\* percentage (w below 60 gives 60, not 95).  The confidence is the fraction
\* num/den.
C18_ConfidenceIsClampedWeightedSum ==
  CpuReturned =>
    LET dist == result.position_distribution
        p == result.predicted_position
        w == 70 * Prob(dist, p)
               + 30 * (Prob(dist, p - 1) + Prob(dist, p) + Prob(dist, p + 1))
        den == dist.total
    IN result.confidence =
         IF w >= 95 * den THEN [num |-> 95, den |-> 1]
         ELSE IF w <= 60 * den THEN [num |-> 60, den |-> 1]
         ELSE [num |-> w, den |-> den]

\* C19: in every returned result (and in the torch path's dict)
\* recommended_action is one of PIT_NOW, PIT_SOON, PUSH_MODE, FUEL_SAVE,
\* MAINTAIN_PACE and action_confidence lies in 60..95; the CPU engine's
\* confidence num/den lies in 60..95 as well.
C19_Actions == {"PIT_NOW", "PIT_SOON", "PUSH_MODE", "FUEL_SAVE", "MAINTAIN_PACE"}
C19_ActionAndConfidenceInRange ==
  /\ Returned =>
       /\ result.recommended_action \in C19_Actions
       /\ result.action_confidence \in 60..95
  /\ gpu_result # None =>
       /\ gpu_result.recommended_action \in C19_Actions
       /\ gpu_result.action_confidence \in 60..95
  /\ CpuReturned =>
       /\ result.confidence.den > 0
       /\ 60 * result.confidence.den <= result.confidence.num
       /\ result.confidence.num <= 95 * result.confidence.den
C19_Witness ==
  /\ CpuReturned
  /\ result.recommended_action = "FUEL_SAVE"
  /\ result.action_confidence = 75
  /\ result.confidence.num = 95 * result.confidence.den
  /\ Cardinality(DOMAIN result.position_distribution.counts) >= 2

\* C20: in every result of the GPU engine (and in the torch path's dict),
\* win_probability = P(1), podium_probability = P(1) + P(2) + P(3) and
\* points_probability = P(1) + ... + P(10) of the position_probabilities of the
\* same result, absent positions counting 0; hence
\* 0 <= win <= podium <= points <= 1 (probabilities are counts over total).
C20_Consistent(r) ==
  LET dist == r.position_probabilities
      mass(k) == SumCounts(dist.counts, {i \in DOMAIN dist.counts : i >= 1 /\ i <= k})
  IN /\ r.win_probability = mass(1)
     /\ r.podium_probability = mass(3)
     /\ r.points_probability = mass(10)
     /\ 0 <= r.win_probability
     /\ r.win_probability <= r.podium_probability
     /\ r.podium_probability <= r.points_probability
     /\ r.points_probability <= dist.total
C20_BettingProbabilities ==
  /\ GpuReturned => C20_Consistent(result)
  /\ gpu_result # None => C20_Consistent(gpu_result)
C20_Witness ==
  /\ GpuReturned
  /\ Prob(result.position_probabilities, 10) >= 1
  /\ result.podium_probability < result.points_probability
  /\ result.points_probability < result.position_probabilities.total

\* C21: a call of the CPU engine's predict_race_outcome (with a valid
\* configuration) never suspends: while it waits in pool.map, some step that
\* brings the call to its end can be taken (an idle worker can take a queued
\* task, a worker holding a task can run or return it, or pool.map can
\* return), also after a worker's task raised or its process died with the
\* chunk outstanding.
C21_MapCanProgress ==
  \/ \E p \in DOMAIN procs : procs[p].task = 0 /\ next_task <= Len(sim_chunks)
  \/ \E p \in DOMAIN procs : procs[p].task # 0
  \/ AllTasksDone
C21_CallNeverSuspends ==
  (pc = "map" /\ passed.n_simulations > 0 /\ passed.n_cores >= 1) =>
    C21_MapCanProgress

\* C22: when all merged trials land on one position (the distribution has a
\* single key, of probability 1) the CPU engine returns a valid result and
\* reports a DegenerateDistribution warning alongside it.
C22_DegenerateIsWarned ==
  (CpuReturned /\ Cardinality(DOMAIN result.position_distribution.counts) = 1) =>
    /\ result.predicted_position \in DOMAIN result.position_distribution.counts
    /\ result.simulations_run = passed.n_simulations
    /\ "DegenerateDistribution" \in ResultWarnings(result)

\* C23: for the DriverState of a result the numpy fallback returned (position
\* in 1..20, lap times given), the final position's mean and standard
\* deviation under the fallback's trial law, which the sample of 100,000 and
\* more trials approaches, are within 2% of those under the CPU worker's law.
C23_Abs(x) == IF x >= 0 THEN x ELSE 0 - x
C23_FallbackMatchesCpuStatistics ==
  (GpuReturned /\ driver.position \in 1..20 /\ driver.recent_lap_times # <<>>) =>
    /\ C23_Abs(TrialMean(driver, "numpy") - TrialMean(driver, "cpu")) * 100
         < 2 * TrialMean(driver, "cpu")
    /\ C23_Abs(TrialStd(driver, "numpy") - TrialStd(driver, "cpu")) * 100
         < 2 * TrialStd(driver, "cpu")

\* C24: for n_simulations >= 0 and n_cores >= 1 the task list holds exactly
\* n_cores chunks, with core_id 0..n_cores-1 in order, whose sizes sum to
\* n_simulations; each size is floor(n/n_cores) or that plus 1, exactly the
\* first n mod n_cores chunks have the larger size, and any two sizes differ by
\* at most 1.
C24_ChunksPartitionTrials ==
  (engine = "CPU" /\ config.n_simulations >= 0 /\ config.n_cores >= 1
     /\ pc \in {"pool", "map", "aggregate", "returned", "raised"}) =>
    LET n == config.n_simulations
        c == config.n_cores
        floor == CHOOSE f \in 0..n : f * c <= n /\ n < (f + 1) * c
        rest == n - floor * c
    IN /\ Len(sim_chunks) = c
       /\ PlannedTrials = n
       /\ \A k \in 1..c :
            /\ sim_chunks[k].core_id = k - 1
            /\ sim_chunks[k].n_sims = IF k <= rest THEN floor + 1 ELSE floor
       /\ \A j, k \in 1..c :
            sim_chunks[j].n_sims - sim_chunks[k].n_sims \in {-1, 0, 1}
C24_Witness ==
  /\ pc = "map"
  /\ config.n_simulations = 3 /\ config.n_cores = 2
  /\ sim_chunks[1].n_sims = 2 /\ sim_chunks[2].n_sims = 1

\* C25: the chunk with worker index i carries seed random_seed + i, so the
\* seeds of one call's chunks are pairwise distinct; and a worker running a
\* chunk has reseeded from that seed before its first trial: its generator is
\* in the state that the trials it has run so far lead to from the seed.
RECURSIVE C25_RngAfter(_, _, _)
C25_RngAfter(d, s, m) ==
  IF m = 0 THEN s ELSE C25_RngAfter(d, CpuTrial(d, s).rng, m - 1)
C25_ChunksSeededByIndex ==
  /\ \A k \in 1..Len(sim_chunks) :
       sim_chunks[k].seed = config.random_seed + sim_chunks[k].core_id
  /\ \A j, k \in 1..Len(sim_chunks) :
       j # k => sim_chunks[j].seed # sim_chunks[k].seed
  /\ \A p \in DOMAIN procs :
       procs[p].task # 0 =>
         procs[p].rng = C25_RngAfter(driver, SeedState(sim_chunks[procs[p].task].seed),
                                     Len(procs[p].positions))
C25_Witness ==
  /\ pc = "map"
  /\ Len(procs) = 2
  /\ procs[1].task = 2 /\ procs[2].task = 1
  /\ Len(procs[1].positions) = 0 /\ Len(procs[2].positions) = 1
  /\ procs[1].rng = SeedState(config.random_seed + 1)
  /\ procs[1].rng # np_rng

\* C26: the aggregation step of the CPU engine starts only after every one of
\* the n_cores chunks has returned its result: while it runs and once it has
\* returned, each chunk's outcome is its complete lists, none is outstanding
\* and no worker still holds a task.
C26_ForkJoinBarrier ==
  (engine = "CPU" /\ pc \in {"aggregate", "returned"}) =>
    /\ Len(chunk_results) = config.n_cores
    /\ Len(chunk_results) = Len(sim_chunks)
    /\ \A k \in 1..Len(chunk_results) :
         /\ chunk_results[k].state = "ok"
         /\ Len(chunk_results[k].positions) = Max(0, sim_chunks[k].n_sims)
         /\ Len(chunk_results[k].lap_times) = Len(chunk_results[k].positions)
    /\ \A p \in DOMAIN procs : procs[p].task = 0
    /\ Returned => result.simulations_run = MergedTrials
C26_Witness ==
  /\ engine = "CPU" /\ pc = "aggregate"
  /\ Len(chunk_results) = 2
  /\ Len(chunk_results[1].positions) = 2 /\ Len(chunk_results[2].positions) = 1

\* C27: aggregation does not depend on the order of the chunk results: merged
\* in any permutation, they give the same position_distribution,
\* predicted_position, confidence and recommended action (with its
\* confidence), which are those of the returned result.
C27_Permutations(n) ==
  {f \in [1..n -> 1..n] : \A i, j \in 1..n : f[i] = f[j] => i = j}
C27_Aggregate(results) ==
  LET all_positions == Merge(results, "positions")
      r == CpuResult(driver, all_positions, Merge(results, "lap_times"))
  IN IF all_positions = <<>> THEN <<>>
     ELSE <<r.position_distribution, r.predicted_position, r.confidence,
            r.recommended_action, r.action_confidence>>
C27_AggregationIsOrderIndependent ==
  (engine = "CPU" /\ pc \in {"aggregate", "returned"}) =>
    /\ \A f \in C27_Permutations(Len(chunk_results)) :
         C27_Aggregate([k \in 1..Len(chunk_results) |-> chunk_results[f[k]]])
           = C27_Aggregate(chunk_results)
    /\ Returned =>
         C27_Aggregate(chunk_results) =
           <<result.position_distribution, result.predicted_position,
             result.confidence, result.recommended_action, result.action_confidence>>
C27_Witness ==
  /\ CpuReturned
  /\ Len(chunk_results) = 2
  /\ Merge(<<chunk_results[2], chunk_results[1]>>, "positions")
       # Merge(chunk_results, "positions")
  /\ Cardinality(DOMAIN result.position_distribution.counts) >= 2

\* C28: calculate_driver_strategy is reproducible per driver: a second call
\* with the same driver_number and the same race_state returns the same top
\* decision, alternatives, pit window and risk as the first, whatever other
\* code drew from the global generators between the two calls.
C28_StrategyIsReproducible ==
  (pc = "strategy" /\ strategy.at = "returned" /\ strategy.calls = 2) =>
    /\ strategy.result.topDecision = strategy.first.topDecision
    /\ strategy.result.alternatives = strategy.first.alternatives
    /\ strategy.result.pitWindow = strategy.first.pitWindow
    /\ strategy.result.risk = strategy.first.risk

\* C28 witness: a second call has returned after other code disturbed both
\* generators.
C28_Witness ==
  /\ pc = "strategy"
  /\ strategy.at = "returned"
  /\ strategy.calls = 2
  /\ strategy.disturbed
  /\ strategy.first # None
  /\ Len(strategy.result.alternatives) = 2

\* The lists _run_simulation_chunk returns when it runs m trials of driver d
\* alone, from generator state s.
RECURSIVE C29_ChunkRun(_, _, _)
C29_ChunkRun(d, s, m) ==
  IF m <= 0 THEN [positions |-> <<>>, lap_times |-> <<>>]
  ELSE LET t == CpuTrial(d, s)
           rest == C29_ChunkRun(d, t.rng, m - 1)
       IN [positions |-> <<t.position>> \o rest.positions,
           lap_times |-> <<t.lap_time>> \o rest.lap_times]

\* C29: the merged sample of the CPU engine does not depend on scheduling:
\* whichever process ran a chunk, and in whatever order the chunks completed,
\* entry k of the list handed to the aggregator is what chunk k yields when
\* run alone from its own seed.
C29_SampleIndependentOfScheduling ==
  (engine = "CPU" /\ pc \in {"map", "aggregate", "returned"}) =>
    /\ Len(chunk_results) = Len(sim_chunks)
    /\ \A k \in 1..Len(chunk_results) :
         chunk_results[k].state = "ok" =>
           LET alone == C29_ChunkRun(driver, SeedState(sim_chunks[k].seed),
                                     sim_chunks[k].n_sims)
           IN /\ chunk_results[k].positions = alone.positions
              /\ chunk_results[k].lap_times = alone.lap_times

\* C29 witness: two chunks are run by two processes and the second chunk
\* completes first, while the first chunk's process is still in its loop.
C29_Witness ==
  /\ engine = "CPU"
  /\ pc = "map"
  /\ Len(chunk_results) = 2
  /\ chunk_results[1].state = "pending"
  /\ chunk_results[2].state = "ok"
  /\ Len(chunk_results[2].positions) = 1
  /\ \E p \in DOMAIN procs : procs[p].task = 1 /\ Len(procs[p].positions) = 1

\* C30: for a driver_number >= 0 and a current_lap argument naming a lap of
\* the race, extract_driver_state returns a DriverState inside the data-model
\* domain: position in [1,20], tire_age >= 0 (also when current_lap is
\* earlier than the last recorded pit stop), fuel_load in [0,100],
\* pit_stops_made >= 0 and a non-empty recent_lap_times.
C30_ExtractedStateInDomain ==
  (/\ pc = "extracted"
   /\ session.driver_number >= 0
   /\ session.current_lap.given
   /\ session.current_lap.value >= 1) =>
    /\ session.state.position \in 1..20
    /\ session.state.tire_age >= 0
    /\ session.state.fuel_load \in 0..100
    /\ session.state.pit_stops_made >= 0
    /\ session.state.recent_lap_times # <<>>

====
